---- MODULE Spec2Model ----
(***************************************************************************)
(* Holodex prototype (src/prototypes/holodex_prototype.rs): per-document   *)
(* Bloom-filter signatures over (path, value) observations, path           *)
(* normalisation, the collection index and its candidate queries, and the  *)
(* metrics constructor.                                                    *)
(*                                                                         *)
(* Text is modelled as a sequence of one-character strings, so that the    *)
(* character loops of the source can be followed step by step.  A 64-bit   *)
(* word is modelled as four 16-bit limbs <<w0, w1, w2, w3>>, least         *)
(* significant first.                                                      *)
(***************************************************************************)
EXTENDS Integers, Sequences, FiniteSets, TLC

VARIABLES
    call,                   \* last call of a function: [fn, arg, ret]
    bits, num_hashes, size, \* the fields of one BloomFilter
    inserted,               \* history: the hashes given to insert so far
    pc,                     \* "start" before Holodex::build, "built" after it
    docs,                   \* the collection given to Holodex::build
    signatures, doc_ids,    \* the fields of the Holodex
    hash_pair_calls         \* the variants of the values the last operation gave to hash_pair

vars == <<call, bits, num_hashes, size, inserted,
          pc, docs, signatures, doc_ids, hash_pair_calls>>

bloomVars == <<bits, num_hashes, size, inserted>>

indexVars == <<pc, docs, signatures, doc_ids, hash_pair_calls>>

NoCall == [fn |-> "none", arg |-> <<>>, ret |-> <<>>]

\* An argument that has been chosen and is waiting for its function.
Pending(arg) == [fn |-> "pending", arg |-> arg, ret |-> <<>>]

----------------------------------------------------------------------------
(* Characters *)

Digits == {"0", "1", "2", "3", "4", "5", "6", "7", "8", "9"}

\* char::is_ascii_digit
is_ascii_digit(c) == c \in Digits

STAR == <<"[", "*", "]">>

----------------------------------------------------------------------------
(* Path normaliser *)

normalize_path_segment(segment) ==
    IF /\ Len(segment) >= 1
       /\ segment[1] = "["
       /\ segment[Len(segment)] = "]"
       /\ \A j \in 2..(Len(segment) - 1) : is_ascii_digit(segment[j])
    THEN STAR
    ELSE segment

\* result.push('.') when result is non-empty, then result.push_str(segment)
PushSegment(result, segment) ==
    IF result # <<>> THEN result \o <<".">> \o segment ELSE result \o segment

\* The character loop of normalize_query_path, from character i on.
RECURSIVE NormalizeLoop(_, _, _, _, _)
NormalizeLoop(path, i, result, current_segment, in_bracket) ==
    IF i > Len(path)
    THEN \* handle remaining segment
         IF current_segment # <<>> THEN PushSegment(result, current_segment)
         ELSE result
    ELSE LET ch == path[i] IN
         IF ch = "["
         THEN IF current_segment # <<>>
              THEN NormalizeLoop(path, i + 1, PushSegment(result, current_segment),
                                 <<ch>>, TRUE)
              ELSE NormalizeLoop(path, i + 1, result, <<ch>>, TRUE)
         ELSE IF ch = "]"
         THEN NormalizeLoop(path, i + 1,
                            result \o normalize_path_segment(Append(current_segment, ch)),
                            <<>>, FALSE)
         ELSE IF ch = "." /\ ~in_bracket
         THEN IF current_segment # <<>>
              THEN NormalizeLoop(path, i + 1, PushSegment(result, current_segment),
                                 <<>>, in_bracket)
              ELSE NormalizeLoop(path, i + 1, result, current_segment, in_bracket)
         ELSE NormalizeLoop(path, i + 1, result, Append(current_segment, ch), in_bracket)

\* A variant of the loop that forgets to leave bracket mode at ']'.
RECURSIVE NormalizeLoop_sticky(_, _, _, _, _)
NormalizeLoop_sticky(path, i, result, current_segment, in_bracket) ==
    IF i > Len(path)
    THEN IF current_segment # <<>> THEN PushSegment(result, current_segment)
         ELSE result
    ELSE LET ch == path[i] IN
         IF ch = "["
         THEN IF current_segment # <<>>
              THEN NormalizeLoop_sticky(path, i + 1, PushSegment(result, current_segment),
                                        <<ch>>, TRUE)
              ELSE NormalizeLoop_sticky(path, i + 1, result, <<ch>>, TRUE)
         ELSE IF ch = "]"
         THEN NormalizeLoop_sticky(path, i + 1,
                            result \o normalize_path_segment(Append(current_segment, ch)),
                            <<>>, in_bracket)
         ELSE IF ch = "." /\ ~in_bracket
         THEN IF current_segment # <<>>
              THEN NormalizeLoop_sticky(path, i + 1, PushSegment(result, current_segment),
                                        <<>>, in_bracket)
              ELSE NormalizeLoop_sticky(path, i + 1, result, current_segment, in_bracket)
         ELSE NormalizeLoop_sticky(path, i + 1, result, Append(current_segment, ch),
                                   in_bracket)

normalize_query_path_sticky(path) == NormalizeLoop_sticky(path, 1, <<>>, <<>>, FALSE)

normalize_query_path(path) == NormalizeLoop(path, 1, <<>>, <<>>, FALSE)

----------------------------------------------------------------------------
(* Inputs of the normaliser *)

MaxPathLen == 5

PathChars == {"a", "0", ".", "[", "]", "*"}

RECURSIVE StringsUpTo(_)
StringsUpTo(n) ==
    IF n = 0 THEN {<<>>}
    ELSE LET shorter == StringsUpTo(n - 1) IN
         shorter \cup {Append(s, c) : s \in {t \in shorter : Len(t) = n - 1}, c \in PathChars}

\* The paths of test_query_path_normalization and test_path_normalization.
P_title == <<"t","i","t","l","e">>
P_key == <<"[","k","e","y","]">>
P_idx123 == <<"[","1","2","3","]">>
P_items_empty == <<"i","t","e","m","s","[","]">>
P_items_star == <<"i","t","e","m","s","[","*","]">>
P_body0 == <<"b","o","d","y","[","0","]">>
P_body_star == <<"b","o","d","y","[","*","]">>
P_body0_text == <<"b","o","d","y","[","0","]",".","t","e","x","t">>
P_body_star_text == <<"b","o","d","y","[","*","]",".","t","e","x","t">>
P_meta == <<"m","e","t","a",".","f">>
P_cat0_ref == <<"c","a","t","[","0","]",".","_","r","e","f">>
P_cat_star_ref == <<"c","a","t","[","*","]",".","_","r","e","f">>
P_body_deep == <<"b","[","0","]",".","c","[","1","]",".","t">>
P_body_deep_star == <<"b","[","*","]",".","c","[","*","]",".","t">>

TestPaths == {P_title, P_key, P_idx123, P_items_empty, P_items_star, P_body0,
              P_body_star, P_body0_text, P_body_star_text, P_meta, P_cat0_ref,
              P_cat_star_ref, P_body_deep, P_body_deep_star}

NormInputs == StringsUpTo(MaxPathLen) \cup TestPaths

----------------------------------------------------------------------------
(* Specification of the normaliser *)

\* no '[' inside an open bracket and no ']' outside one, from character i on
RECURSIVE BracketsPaired(_, _, _)
BracketsPaired(path, i, open) ==
    IF i > Len(path) THEN TRUE
    ELSE IF path[i] = "[" THEN ~open /\ BracketsPaired(path, i + 1, TRUE)
    ELSE IF path[i] = "]" THEN open /\ BracketsPaired(path, i + 1, FALSE)
    ELSE BracketsPaired(path, i + 1, open)

\* '[' , a non-empty run of ASCII digits, ']'
IsIndexSegment(segment) ==
    /\ Len(segment) >= 3
    /\ segment[1] = "["
    /\ segment[Len(segment)] = "]"
    /\ \A j \in 2..(Len(segment) - 1) : is_ascii_digit(segment[j])

NoFilter ==
    /\ bits = {}
    /\ num_hashes = 0
    /\ size = 0
    /\ inserted = {}

NoIndex ==
    /\ pc = "start"
    /\ docs = <<>>
    /\ signatures = <<>>
    /\ doc_ids = <<>>
    /\ hash_pair_calls = {}

InitNorm ==
    /\ \E path \in NormInputs : call = Pending(path)
    /\ NoFilter
    /\ NoIndex

NormalizeQueryPath ==
    /\ call.fn = "pending"
    /\ call' = [fn |-> "normalize_query_path", arg |-> call.arg,
                ret |-> normalize_query_path(call.arg)]
    /\ UNCHANGED <<bloomVars, indexVars>>

NormalizePathSegment ==
    /\ call.fn = "pending"
    /\ call' = [fn |-> "normalize_path_segment", arg |-> call.arg,
                ret |-> normalize_path_segment(call.arg)]
    /\ UNCHANGED <<bloomVars, indexVars>>

NextNorm ==
    \/ NormalizeQueryPath
    \/ NormalizePathSegment

SpecNorm == InitNorm /\ [][NextNorm]_vars

\* C3: normalisation rewrites only '[' digits+ ']' to [*]; the empty bracket
\* and non-numeric brackets stay verbatim: normalize_query_path("items[]") is
\* "items[]" and normalize_query_path("body[0].text") is "body[*].text".
C3_OnlyDigitRunsRewritten ==
    /\ call.fn = "normalize_path_segment" =>
          call.ret = IF IsIndexSegment(call.arg) THEN STAR ELSE call.arg
    /\ (call.fn = "normalize_query_path" /\ call.arg = P_items_empty) =>
          call.ret = P_items_empty
    /\ (call.fn = "normalize_query_path" /\ call.arg = P_body0_text) =>
          call.ret = P_body_star_text

\* C4 as stated: normalize_query_path is idempotent on every input string,
\* unclosed, nested and stray brackets included.
C4_IdempotentOnEveryInput ==
    call.fn = "normalize_query_path" =>
        normalize_query_path(call.ret) = call.ret

\* C4 as amended: normalize_query_path is idempotent on every input in which
\* no '[' occurs inside an open bracket and no ']' occurs outside one.
C4_IdempotentOnPairedBrackets ==
    (call.fn = "normalize_query_path" /\ BracketsPaired(call.arg, 1, FALSE)) =>
        normalize_query_path(call.ret) = call.ret

\* A path with paired brackets whose index was rewritten by the call.
C4_Witness ==
    /\ call.fn = "normalize_query_path"
    /\ call.arg = P_body_deep
    /\ BracketsPaired(call.arg, 1, FALSE)
    /\ call.ret = P_body_deep_star
    /\ call.ret # call.arg

----------------------------------------------------------------------------
(* 64-bit words as four 16-bit limbs, least significant first *)

LimbBase == 2^16

ZeroWord == <<0, 0, 0, 0>>

\* hash >> 32
ShiftRight32(w) == <<w[3], w[4], 0, 0>>

\* usize::wrapping_mul of a small count i (at most 10) and a word
WrappingMulSmall(i, w) ==
    LET p1 == i * w[1]
        p2 == i * w[2] + (p1 \div LimbBase)
        p3 == i * w[3] + (p2 \div LimbBase)
        p4 == i * w[4] + (p3 \div LimbBase)
    IN  <<p1 % LimbBase, p2 % LimbBase, p3 % LimbBase, p4 % LimbBase>>

\* usize::wrapping_add
WrappingAdd(a, b) ==
    LET s1 == a[1] + b[1]
        s2 == a[2] + b[2] + (s1 \div LimbBase)
        s3 == a[3] + b[3] + (s2 \div LimbBase)
        s4 == a[4] + b[4] + (s3 \div LimbBase)
    IN  <<s1 % LimbBase, s2 % LimbBase, s3 % LimbBase, s4 % LimbBase>>

\* word % m for a modulus below 2^15
ModWord(w, m) ==
    LET r4 == w[4] % m
        r3 == (r4 * LimbBase + w[3]) % m
        r2 == (r3 * LimbBase + w[2]) % m
    IN  (r2 * LimbBase + w[1]) % m

----------------------------------------------------------------------------
(* BloomFilter *)

CeilDiv(a, b) == (a + b - 1) \div b

Max(a, b) == IF a >= b THEN a ELSE b

Min(a, b) == IF a <= b THEN a ELSE b

\* BloomFilter::new(num_elements, 0.01), for 1 <= num_elements <= 224:
\*   -ln(0.01) / ln(2)^2 = 9.585058...   and   ln(2) = 0.693147...
BloomFilter_new(num_elements) ==
    LET m == CeilDiv(num_elements * 9585059, 1000000)
        k == CeilDiv(m * 693147, num_elements * 1000000)
    IN  [bits |-> {}, num_hashes |-> Min(Max(k, 1), 10), size |-> Max(m, 64)]

\* BloomFilter::get_index on a target whose usize has 64 bits
get_index(self_size, hash, i) ==
    LET h1 == hash
        h2 == ShiftRight32(hash)
    IN  ModWord(WrappingAdd(h1, WrappingMulSmall(i, h2)), self_size)

\* the probe indices of the loop "for i in 0..self.num_hashes"
Probes(self, hash) == {get_index(self.size, hash, i) : i \in 0..(self.num_hashes - 1)}

\* A variant whose loop starts at 1 for insertion only.
BloomFilter_insert_skipfirst(self, hash) ==
    [self EXCEPT !.bits = self.bits \cup
        {get_index(self.size, hash, i) : i \in 1..(self.num_hashes - 1)}]

\* BloomFilter::insert
BloomFilter_insert(self, hash) ==
    [self EXCEPT !.bits = self.bits \cup Probes(self, hash)]

\* BloomFilter::contains
BloomFilter_contains(self, hash) ==
    \A idx \in Probes(self, hash) : idx \in self.bits

\* BloomFilter::size_bytes
BloomFilter_size_bytes(self) == self.size \div 8

\* the filter held in the variables
Filter == [bits |-> bits, num_hashes |-> num_hashes, size |-> size]

----------------------------------------------------------------------------
(* Specification of one filter *)

\* expected element counts given to BloomFilter::new
BloomElementCounts == {1, 10, 11}

\* hashes given to insert and contains
BloomHashes ==
    { ZeroWord,
      <<65535, 65535, 65535, 65535>>,
      <<1, 0, 0, 0>>,
      <<1, 0, 1, 0>>,
      <<1, 0, 0, 32768>>,
      <<40503, 31153, 51831, 40503>>,
      <<96, 0, 0, 0>> }

MaxInserts == 3

InitBloom ==
    /\ call = NoCall
    /\ NoIndex
    /\ inserted = {}
    /\ \E n \in BloomElementCounts :
          LET f == BloomFilter_new(n) IN
          /\ bits = f.bits
          /\ num_hashes = f.num_hashes
          /\ size = f.size

Insert(hash) ==
    /\ Cardinality(inserted \cup {hash}) <= MaxInserts
    /\ LET f == BloomFilter_insert(Filter, hash) IN
       /\ bits' = f.bits
       /\ num_hashes' = f.num_hashes
       /\ size' = f.size
    /\ inserted' = inserted \cup {hash}
    /\ call' = [fn |-> "insert", arg |-> hash, ret |-> <<>>]
    /\ UNCHANGED indexVars

Contains(hash) ==
    /\ call' = [fn |-> "contains", arg |-> hash,
                ret |-> BloomFilter_contains(Filter, hash)]
    /\ UNCHANGED <<bloomVars, indexVars>>

NextBloom ==
    \/ \E hash \in BloomHashes : Insert(hash)
    \/ \E hash \in BloomHashes : Contains(hash)

SpecBloom == InitBloom /\ [][NextBloom]_vars

\* C5: contains is true of every hash inserted earlier, insert never clears
\* a bit, and inserting a hash a second time leaves the bit vector unchanged.
C5_MembershipTotalAndMonotone ==
    /\ [](\A h \in inserted : BloomFilter_contains(Filter, h))
    /\ []((call.fn = "contains" /\ call.arg \in inserted) => call.ret = TRUE)
    /\ [][bits \subseteq bits']_vars
    /\ [][(call'.fn = "insert" /\ call'.arg \in inserted) => bits' = bits]_vars

\* contains has answered true for an inserted hash of a filter holding several.
C5_Witness ==
    /\ Cardinality(inserted) >= 2
    /\ call.fn = "contains"
    /\ call.arg \in inserted
    /\ call.ret = TRUE
    /\ bits # {}

----------------------------------------------------------------------------
(* Specification of the probe schedule *)

\* the low 32 bits of a word
Low32(w) == <<w[1], w[2], 0, 0>>

\* a filter from BloomFilter::new and the arguments (hash, i) of one probe
InitProbe ==
    /\ NoIndex
    /\ inserted = {}
    /\ \E n \in BloomElementCounts :
          LET f == BloomFilter_new(n) IN
          /\ bits = f.bits
          /\ num_hashes = f.num_hashes
          /\ size = f.size
          /\ \E hash \in BloomHashes, i \in 0..(f.num_hashes - 1) :
                call = Pending(<<hash, i>>)

GetIndex ==
    /\ call.fn = "pending"
    /\ call' = [fn |-> "get_index", arg |-> call.arg,
                ret |-> get_index(size, call.arg[1], call.arg[2])]
    /\ UNCHANGED <<bloomVars, indexVars>>

NextProbe == GetIndex

SpecProbe == InitProbe /\ [][NextProbe]_vars

\* C11: with h1 the low 32 bits of the hash and h2 its high 32 bits, the i-th
\* probe index is (h1 + i * h2), wrapping, mod the filter size; so at i = 0
\* two hashes with the same low 32 bits have the same index.
C11_ProbeSchedule ==
    call.fn = "get_index" =>
        LET hash == call.arg[1]
            i == call.arg[2]
            h1 == Low32(hash)
            h2 == ShiftRight32(hash)
        IN  /\ call.ret = ModWord(WrappingAdd(h1, WrappingMulSmall(i, h2)), size)
            /\ i = 0 =>
                  \A other \in BloomHashes :
                      Low32(other) = Low32(hash) => get_index(size, other, 0) = call.ret

----------------------------------------------------------------------------
(* JsonValue *)

Null == [tag |-> "Null"]
Bool(b) == [tag |-> "Bool", b |-> b]
\* Number(n as f64) for an integral n
Number(n) == [tag |-> "Number", n |-> n]
String(s) == [tag |-> "String", s |-> s]
Array(arr) == [tag |-> "Array", arr |-> arr]
\* obj is a sequence of <<key, value>> entries, as in Vec<(String, JsonValue)>
Object(obj) == [tag |-> "Object", obj |-> obj]

\* the variants of the first arm of the match in fingerprint
IsPrimitive(value) == value.tag \in {"String", "Number", "Bool", "Null"}

----------------------------------------------------------------------------
(* Hasher *)

TYPE_TAG_STRING == 1
TYPE_TAG_NUMBER == 2
TYPE_TAG_BOOL == 3
TYPE_TAG_NULL == 4
TYPE_TAG_PATH_ONLY == 5

LowerCase == <<"a","b","c","d","e","f","g","h","i","j","k","l","m",
               "n","o","p","q","r","s","t","u","v","w","x","y","z">>

DigitChars == <<"0","1","2","3","4","5","6","7","8","9">>

\* the UTF-8 byte of a character (all characters used are ASCII)
Utf8Byte(c) ==
    IF \E j \in 1..26 : LowerCase[j] = c
    THEN 96 + (CHOOSE j \in 1..26 : LowerCase[j] = c)
    ELSE IF \E j \in 1..10 : DigitChars[j] = c
    THEN 47 + (CHOOSE j \in 1..10 : DigitChars[j] = c)
    ELSE CASE c = "*" -> 42
           [] c = "-" -> 45
           [] c = "." -> 46
           [] c = "[" -> 91
           [] c = "]" -> 93
           [] c = "_" -> 95

\* str::as_bytes
as_bytes(s) == [j \in 1..Len(s) |-> Utf8Byte(s[j])]

\* f64::to_le_bytes for the numbers used: 0.0, 1.0 = 0x3FF0000000000000,
\* 42.0 = 0x4045000000000000
to_le_bytes(n) ==
    CASE n = 0 -> <<0, 0, 0, 0, 0, 0, 0, 0>>
      [] n = 1 -> <<0, 0, 0, 0, 0, 0, 240, 63>>
      [] n = 42 -> <<0, 0, 0, 0, 0, 0, 69, 64>>

\* Xxh64 of the external crate xxhash_rust, seed 0, as a function of the
\* bytes written: each limb folds the bytes with its own multiplier.
RECURSIVE Xxh64Fold(_, _, _)
Xxh64Fold(bytes, j, acc) ==
    IF j > Len(bytes) THEN acc
    ELSE Xxh64Fold(bytes, j + 1,
                   << (acc[1] * 31 + bytes[j] + 1) % LimbBase,
                      (acc[2] * 37 + acc[1] + bytes[j] + 2) % LimbBase,
                      (acc[3] * 41 + acc[2] + bytes[j] + 3) % LimbBase,
                      (acc[4] * 43 + acc[3] + bytes[j] + 4) % LimbBase >>)

\* Xxh64::new(0), write ..., finish
Xxh64(bytes) == Xxh64Fold(bytes, 1, <<40503, 31153, 51831, 24605>>)

\* the bytes hash_pair writes after the path
ValueBytes(value) ==
    CASE value.tag = "String" -> <<TYPE_TAG_STRING>> \o as_bytes(value.s)
      [] value.tag = "Number" -> <<TYPE_TAG_NUMBER>> \o to_le_bytes(value.n)
      [] value.tag = "Bool" -> <<TYPE_TAG_BOOL, IF value.b THEN 1 ELSE 0>>
      [] value.tag = "Null" -> <<TYPE_TAG_NULL>>
      [] OTHER -> <<>>

hash_pair(path, value) == Xxh64(as_bytes(path) \o ValueBytes(value))

hash_path_only(path) == Xxh64(as_bytes(path) \o <<TYPE_TAG_PATH_ONLY>>)

\* A variant that hashes the query path as written.
hash_predicate_raw(path, value) == hash_pair(path, value)

hash_predicate(path, value) == hash_pair(normalize_query_path(path), value)

----------------------------------------------------------------------------
(* Pair extractor *)

\* format!("{}", i) for a one-digit index
IndexText(i) == <<DigitChars[i + 1]>>

RECURSIVE extract_pairs_recursive(_, _)
RECURSIVE ExtractObject(_, _, _)
RECURSIVE ExtractArray(_, _, _)
RECURSIVE ExtractArray_indexed(_, _, _)

\* the loop "for (key, val) in obj", from entry j on: the pairs it pushes
ExtractObject(obj, j, current_path) ==
    IF j > Len(obj) THEN <<>>
    ELSE LET key == obj[j][1]
             val == obj[j][2]
             new_path == IF current_path = <<>> THEN key
                         ELSE current_path \o <<".">> \o key
         IN  <<<<new_path, val>>>> \o extract_pairs_recursive(val, new_path)
                 \o ExtractObject(obj, j + 1, current_path)

\* A variant of the array loop that writes the element index into the path.
ExtractArray_indexed(arr, j, current_path) ==
    IF j > Len(arr) THEN <<>>
    ELSE LET val == arr[j]
             new_path == current_path \o <<"[">> \o IndexText(j - 1) \o <<"]">>
         IN  <<<<new_path, val>>>> \o extract_pairs_recursive(val, new_path)
                 \o ExtractArray_indexed(arr, j + 1, current_path)

\* the loop "for (i, val) in arr.iter().enumerate()", from element j on
ExtractArray(arr, j, current_path) ==
    IF j > Len(arr) THEN <<>>
    ELSE LET val == arr[j]
             new_path == current_path \o STAR
         IN  <<<<new_path, val>>>> \o extract_pairs_recursive(val, new_path)
                 \o ExtractArray(arr, j + 1, current_path)

extract_pairs_recursive(value, current_path) ==
    CASE value.tag = "Object" -> ExtractObject(value.obj, 1, current_path)
      [] value.tag = "Array" -> ExtractArray(value.arr, 1, current_path)
      [] OTHER -> <<>>

extract_pairs(doc) == extract_pairs_recursive(doc, <<>>)

----------------------------------------------------------------------------
(* fingerprint *)

\* A variant of the loop that stops at the first composite value.
RECURSIVE FingerprintLoop_break(_, _, _)
FingerprintLoop_break(pairs, j, filter) ==
    IF j > Len(pairs) THEN filter
    ELSE LET path == pairs[j][1]
             value == pairs[j][2]
         IN  IF IsPrimitive(value)
             THEN FingerprintLoop_break(pairs, j + 1,
                      BloomFilter_insert(BloomFilter_insert(filter, hash_pair(path, value)),
                                         hash_path_only(path)))
             ELSE filter

\* the loop "for (path, value) in &pairs", from pair j on
RECURSIVE FingerprintLoop(_, _, _)
FingerprintLoop(pairs, j, filter) ==
    IF j > Len(pairs) THEN filter
    ELSE LET path == pairs[j][1]
             value == pairs[j][2]
             hashed == IF IsPrimitive(value)
                       THEN BloomFilter_insert(filter, hash_pair(path, value))
                       ELSE filter
         IN  FingerprintLoop(pairs, j + 1,
                             BloomFilter_insert(hashed, hash_path_only(path)))

fingerprint(doc) ==
    LET pairs == extract_pairs(doc)
        num_elements == Max(Len(pairs), 10)
    IN  FingerprintLoop(pairs, 1, BloomFilter_new(num_elements))

\* the variants of the values fingerprint gives to hash_pair
FingerprintHashPairCalls(doc) ==
    LET pairs == extract_pairs(doc) IN
    {pairs[j][2].tag : j \in {k \in 1..Len(pairs) : IsPrimitive(pairs[k][2])}}

----------------------------------------------------------------------------
(* Holodex *)

\* Holodex::build: the signatures and ids pushed by the loop over docs
Holodex_build(ds) ==
    [signatures |-> [j \in 1..Len(ds) |-> fingerprint(ds[j][2])],
     doc_ids |-> [j \in 1..Len(ds) |-> ds[j][1]]]

\* A variant that collects the positions from the last signature to the first.
RECURSIVE Candidates_reversed(_, _, _)
Candidates_reversed(sigs, j, hash) ==
    IF j > Len(sigs) THEN <<>>
    ELSE Candidates_reversed(sigs, j + 1, hash)
             \o (IF BloomFilter_contains(sigs[j], hash) THEN <<j - 1>> ELSE <<>>)

\* signatures.iter().enumerate().filter(contains).map(position).collect(),
\* from signature j on; positions count from 0
RECURSIVE Candidates(_, _, _)
Candidates(sigs, j, hash) ==
    IF j > Len(sigs) THEN <<>>
    ELSE (IF BloomFilter_contains(sigs[j], hash) THEN <<j - 1>> ELSE <<>>)
             \o Candidates(sigs, j + 1, hash)

Holodex_candidates_eq(sigs, path, value) ==
    Candidates(sigs, 1, hash_predicate(path, value))

Holodex_candidates_defined(sigs, path) ==
    Candidates(sigs, 1, hash_path_only(path))

Holodex_doc_id(idx) == doc_ids[idx + 1]

Holodex_len == Len(signatures)

RECURSIVE SumSizeBytes(_, _)
SumSizeBytes(sigs, j) ==
    IF j > Len(sigs) THEN 0
    ELSE BloomFilter_size_bytes(sigs[j]) + SumSizeBytes(sigs, j + 1)

Holodex_size_bytes == SumSizeBytes(signatures, 1)

----------------------------------------------------------------------------
(* Documents and queries *)

S_h == <<"h">>
S_g == <<"g">>
S_u == <<"u">>

K_t == <<"t">>
K_a == <<"a">>
K_r == <<"r">>
K_n == <<"n">>
K_b == <<"b">>
K_c == <<"c">>
K_x == <<"x">>
K_a0 == <<"a", "[", "0", "]">>
K_empty == <<>>
K_dotted == <<"a", ".", "r">>

\* {"t": "h", "a": {"r": "u", "n": 1}}
Doc_post == Object(<< <<K_t, String(S_h)>>,
                      <<K_a, Object(<< <<K_r, String(S_u)>>, <<K_n, Number(1)>> >>)>> >>)

\* the same fields in another order, at both levels
Doc_post_reordered == Object(<< <<K_a, Object(<< <<K_n, Number(1)>>, <<K_r, String(S_u)>> >>)>>,
                                <<K_t, String(S_h)>> >>)

\* {"b": [{"c": [{"x": "h"}]}]}
Doc_body == Object(<< <<K_b, Array(<< Object(<< <<K_c,
                Array(<< Object(<< <<K_x, String(S_h)>> >>) >>)>> >>) >>)>> >>)

\* {"b": [42, [null, true]], "t": 0}
Doc_nested_arrays == Object(<< <<K_b, Array(<< Number(42),
                                               Array(<< Null, Bool(TRUE) >>) >>)>>,
                               <<K_t, Number(0)>> >>)

\* {"a[0]": "h", "a": {"": false}, "a.r": "g"}
Doc_odd_keys == Object(<< <<K_a0, String(S_h)>>,
                          <<K_a, Object(<< <<K_empty, Bool(FALSE)>> >>)>>,
                          <<K_dotted, String(S_g)>> >>)

\* [{"t": "h"}]
Doc_root_array == Array(<< Object(<< <<K_t, String(S_h)>> >>) >>)

\* (id, document) entries as given to Holodex::build
Corpus ==
    { <<<<"p">>, Doc_post>>,
      <<<<"q">>, Doc_post_reordered>>,
      <<<<"b">>, Doc_body>>,
      <<<<"n">>, Doc_nested_arrays>>,
      <<<<"k">>, Doc_odd_keys>>,
      <<<<"r">>, Doc_root_array>> }

MaxDocs == 2

DocSeqs == UNION {[1..n -> Corpus] : n \in 0..MaxDocs}

Q_t == K_t
Q_a == K_a
Q_a_r == <<"a", ".", "r">>
Q_a_0 == K_a0
Q_b_5 == <<"b", "[", "5", "]">>
Q_b_1_1 == <<"b", "[", "1", "]", "[", "1", "]">>
Q_b_0_c_0_x == <<"b","[","0","]",".","c","[","0","]",".","x">>
Q_b_7_c_3_x == <<"b","[","7","]",".","c","[","3","]",".","x">>
Q_0_t == <<"[", "0", "]", ".", "t">>

QueryPaths == {Q_t, Q_a, Q_a_r, Q_a_0, Q_b_5, Q_b_1_1, Q_b_0_c_0_x, Q_b_7_c_3_x, Q_0_t}

\* candidates_eq takes any &JsonValue
QueryValues == {String(S_h), String(S_u), Number(42), Bool(TRUE), Null,
                Object(<< <<K_r, String(S_u)>> >>)}

----------------------------------------------------------------------------
(* Specification of the index *)

Init ==
    /\ call = NoCall
    /\ NoFilter
    /\ NoIndex

Build(ds) ==
    /\ pc = "start"
    /\ pc' = "built"
    /\ docs' = ds
    /\ LET h == Holodex_build(ds) IN
       /\ signatures' = h.signatures
       /\ doc_ids' = h.doc_ids
    /\ hash_pair_calls' = UNION {FingerprintHashPairCalls(ds[j][2]) : j \in 1..Len(ds)}
    /\ call' = [fn |-> "build", arg |-> <<>>, ret |-> <<>>]
    /\ UNCHANGED bloomVars

CandidatesEq(path, value) ==
    /\ pc = "built"
    /\ call' = [fn |-> "candidates_eq", arg |-> <<path, value>>,
                ret |-> Holodex_candidates_eq(signatures, path, value)]
    /\ hash_pair_calls' = {value.tag}
    /\ UNCHANGED <<bloomVars, pc, docs, signatures, doc_ids>>

CandidatesDefined(path) ==
    /\ pc = "built"
    /\ call' = [fn |-> "candidates_defined", arg |-> <<path>>,
                ret |-> Holodex_candidates_defined(signatures, path)]
    /\ hash_pair_calls' = {}
    /\ UNCHANGED <<bloomVars, pc, docs, signatures, doc_ids>>

Next ==
    \/ \E ds \in DocSeqs : Build(ds)
    \/ \E path \in QueryPaths, value \in QueryValues : CandidatesEq(path, value)
    \/ \E path \in QueryPaths : CandidatesDefined(path)

Spec == Init /\ [][Next]_vars

----------------------------------------------------------------------------
(* What a document contains *)

\* a field name that is non-empty and free of '.', '[' and ']'
PlainFieldName(key) ==
    /\ key # <<>>
    /\ \A j \in 1..Len(key) : key[j] \notin {".", "[", "]"}

\* The bindings of a document: every concrete path (fields joined by '.',
\* array positions written [N]) with the value found there; plain tells
\* whether all field names on the path are plain.
RECURSIVE ConcreteBindings(_, _, _)
RECURSIVE ObjectBindings(_, _, _, _)
RECURSIVE ArrayBindings(_, _, _, _)

ObjectBindings(obj, j, prefix, plain) ==
    IF j > Len(obj) THEN <<>>
    ELSE LET key == obj[j][1]
             val == obj[j][2]
             path == IF prefix = <<>> THEN key ELSE prefix \o <<".">> \o key
             ok == plain /\ PlainFieldName(key)
         IN  <<[path |-> path, value |-> val, plain |-> ok]>>
                 \o ConcreteBindings(val, path, ok)
                 \o ObjectBindings(obj, j + 1, prefix, plain)

ArrayBindings(arr, j, prefix, plain) ==
    IF j > Len(arr) THEN <<>>
    ELSE LET val == arr[j]
             path == prefix \o <<"[">> \o IndexText(j - 1) \o <<"]">>
         IN  <<[path |-> path, value |-> val, plain |-> plain]>>
                 \o ConcreteBindings(val, path, plain)
                 \o ArrayBindings(arr, j + 1, prefix, plain)

ConcreteBindings(value, prefix, plain) ==
    CASE value.tag = "Object" -> ObjectBindings(value.obj, 1, prefix, plain)
      [] value.tag = "Array" -> ArrayBindings(value.arr, 1, prefix, plain)
      [] OTHER -> <<>>

BindingsOf(doc) == ConcreteBindings(doc, <<>>, TRUE)

SameValue(a, b) == a.tag = b.tag /\ a = b

InResult(position) == \E m \in 1..Len(call.ret) : call.ret[m] = position

\* two documents that differ at most in the order of the fields of their objects
RECURSIVE SameUpToFieldOrder(_, _)
SameUpToFieldOrder(a, b) ==
    IF a.tag # b.tag THEN FALSE
    ELSE CASE a.tag = "Object" ->
                /\ Len(a.obj) = Len(b.obj)
                /\ \E perm \in Permutations(1..Len(a.obj)) :
                      \A j \in 1..Len(a.obj) :
                          /\ a.obj[j][1] = b.obj[perm[j]][1]
                          /\ SameUpToFieldOrder(a.obj[j][2], b.obj[perm[j]][2])
           [] a.tag = "Array" ->
                /\ Len(a.arr) = Len(b.arr)
                /\ \A j \in 1..Len(a.arr) : SameUpToFieldOrder(a.arr[j], b.arr[j])
           [] OTHER -> a = b

----------------------------------------------------------------------------
(* Properties of the index *)

\* C1: no false negatives for equality queries: when document i holds the
\* primitive value V at a concrete path P with plain field names, then
\* candidates_eq(Q, V) contains i for every Q that normalises as P does.
C1_NoFalseNegativesEq ==
    call.fn = "candidates_eq" =>
        \A i \in 1..Len(docs) :
            LET bs == BindingsOf(docs[i][2]) IN
            \A k \in 1..Len(bs) :
                ( /\ bs[k].plain
                  /\ IsPrimitive(bs[k].value)
                  /\ SameValue(bs[k].value, call.arg[2])
                  /\ normalize_query_path(call.arg[1]) = normalize_query_path(bs[k].path) )
                => InResult(i - 1)

\* The query body[7].children[3].text == "h" has picked the document that
\* holds "h" at body[0].children[0].text and left the other document out.
C1_Witness ==
    /\ call.fn = "candidates_eq"
    /\ call.arg = <<Q_b_7_c_3_x, String(S_h)>>
    /\ Len(docs) = 2
    /\ docs[1][2] = Doc_post
    /\ docs[2][2] = Doc_body
    /\ call.ret = <<1>>

\* C2: no false negatives for existence queries: when document i contains a
\* concrete path P with plain field names, bound to any value, then
\* candidates_defined(Q) contains i for every Q that normalises as P does.
C2_NoFalseNegativesDefined ==
    call.fn = "candidates_defined" =>
        \A i \in 1..Len(docs) :
            LET bs == BindingsOf(docs[i][2]) IN
            \A k \in 1..Len(bs) :
                ( /\ bs[k].plain
                  /\ normalize_query_path(call.arg[1]) = normalize_query_path(bs[k].path) )
                => InResult(i - 1)

\* C6: the positions returned by candidates_eq and candidates_defined are
\* strictly ascending and lie in 0..len()-1, and position i holds the id and
\* the signature of the i-th document given to build.
C6_AscendingPositions ==
    /\ pc = "built" =>
          /\ Holodex_len = Len(docs)
          /\ Len(doc_ids) = Len(docs)
          /\ \A i \in 0..(Len(docs) - 1) :
                /\ Holodex_doc_id(i) = docs[i + 1][1]
                /\ signatures[i + 1] = fingerprint(docs[i + 1][2])
    /\ call.fn \in {"candidates_eq", "candidates_defined"} =>
          /\ \A m \in 1..Len(call.ret) : call.ret[m] \in 0..(Holodex_len - 1)
          /\ \A m \in 1..Len(call.ret) : \A n \in 1..Len(call.ret) :
                m < n => call.ret[m] < call.ret[n]

\* A query has returned more than one position.
C6_Witness ==
    /\ pc = "built"
    /\ call.fn \in {"candidates_eq", "candidates_defined"}
    /\ Len(docs) >= 2
    /\ Len(call.ret) >= 2

\* C7: hash_pair is never given an Array or an Object, neither by the
\* fingerprint pipeline nor by candidates_eq.
C7_HashPairNeverComposite ==
    hash_pair_calls \cap {"Array", "Object"} = {}

\* C8: two documents that differ only in the order of the fields of their
\* objects have signatures of the same size, probe count and bit vector.
C8_FieldOrderIrrelevant ==
    pc = "built" =>
        \A i \in 1..Len(docs) : \A j \in 1..Len(docs) :
            SameUpToFieldOrder(docs[i][2], docs[j][2]) =>
                /\ signatures[i].size = signatures[j].size
                /\ signatures[i].num_hashes = signatures[j].num_hashes
                /\ signatures[i].bits = signatures[j].bits

\* The index holds a document and a reordering of it.
C8_Witness ==
    /\ pc = "built"
    /\ Len(docs) = 2
    /\ docs[1][2] = Doc_post
    /\ docs[2][2] = Doc_post_reordered
    /\ docs[1][2] # docs[2][2]
    /\ SameUpToFieldOrder(docs[1][2], docs[2][2])
    /\ signatures[1].bits # {}

----------------------------------------------------------------------------
(* Specification of the pair extractor *)

ExtractKeys == {K_t, K_b, K_a0, K_empty}

ExtractPrimitives == {String(S_h), Number(1), Null}

\* values of depth at most one
ExtractValues ==
    ExtractPrimitives
        \cup {Array(<<v>>) : v \in ExtractPrimitives}
        \cup {Array(<<v, w>>) : v \in ExtractPrimitives, w \in ExtractPrimitives}
        \cup {Object(<< <<k, v>> >>) : k \in ExtractKeys, v \in ExtractPrimitives}

\* documents of depth at most two
ExtractDocs ==
    {Object(<< <<k1, v1>>, <<k2, v2>> >>) :
        k1 \in ExtractKeys, k2 \in ExtractKeys, v1 \in ExtractValues, v2 \in ExtractValues}
        \cup {Array(<<v1, v2>>) : v1 \in ExtractValues, v2 \in ExtractValues}
        \cup {Doc_post, Doc_body, Doc_nested_arrays, Doc_odd_keys, Doc_root_array}

InitExtract ==
    /\ \E doc \in ExtractDocs : call = Pending(doc)
    /\ NoFilter
    /\ NoIndex

ExtractPairs ==
    /\ call.fn = "pending"
    /\ call' = [fn |-> "extract_pairs", arg |-> call.arg,
                ret |-> extract_pairs(call.arg)]
    /\ UNCHANGED <<bloomVars, indexVars>>

NextExtract == ExtractPairs

SpecExtract == InitExtract /\ [][NextExtract]_vars

\* every field name of the document is plain
AllPlain(doc) ==
    LET bs == BindingsOf(doc) IN \A k \in 1..Len(bs) : bs[k].plain

\* C10 as stated: for every document, every path emitted by extract_pairs
\* is its own normal form.
C10_EmittedPathsNormalized ==
    call.fn = "extract_pairs" =>
        \A k \in 1..Len(call.ret) :
            normalize_query_path(call.ret[k][1]) = call.ret[k][1]

\* C10 as amended: for every document whose field names are non-empty and
\* free of '.', '[' and ']', every path emitted by extract_pairs is its own
\* normal form.
C10_PlainKeysEmitNormalized ==
    (call.fn = "extract_pairs" /\ AllPlain(call.arg)) =>
        \A k \in 1..Len(call.ret) :
            normalize_query_path(call.ret[k][1]) = call.ret[k][1]

\* The pairs of an array-shaped document with plain field names.
C10_Witness ==
    /\ call.fn = "extract_pairs"
    /\ call.arg = Doc_body
    /\ AllPlain(call.arg)
    /\ Len(call.ret) = 5
    /\ call.ret[5] = <<<<"b","[","*","]",".","c","[","*","]",".","x">>, String(S_h)>>

----------------------------------------------------------------------------
(* HolodexMetrics *)

\* A variant that subtracts without saturating.
plain_sub(a, b) == a - b

\* usize::saturating_sub
saturating_sub(a, b) == IF a >= b THEN a - b ELSE 0

\* an f64 quotient, kept as numerator and denominator
Ratio(num, den) == [num |-> num, den |-> den]

HolodexMetrics_calculate(total_docs, candidates, true_matches) ==
    LET false_positives == saturating_sub(candidates, true_matches)
        fpr == IF candidates > 0 THEN Ratio(false_positives, candidates)
               ELSE Ratio(0, 1)
        \* 1.0 - candidates / total_docs
        reduction == Ratio(total_docs - candidates, total_docs)
    IN  [total_docs |-> total_docs,
         candidates |-> candidates,
         true_matches |-> true_matches,
         false_positives |-> false_positives,
         false_positive_rate |-> fpr,
         reduction_ratio |-> reduction]

MaxCount == 4

\* (total_docs, candidates, true_matches), with the triple of test_holodex_metrics
MetricsInputs ==
    ((0..MaxCount) \X (0..MaxCount) \X (0..MaxCount)) \cup {<<1000, 50, 45>>}

InitMetrics ==
    /\ \E triple \in MetricsInputs : call = Pending(triple)
    /\ NoFilter
    /\ NoIndex

Calculate ==
    /\ call.fn = "pending"
    /\ call' = [fn |-> "calculate", arg |-> call.arg,
                ret |-> HolodexMetrics_calculate(call.arg[1], call.arg[2], call.arg[3])]
    /\ UNCHANGED <<bloomVars, indexVars>>

NextMetrics == Calculate

SpecMetrics == InitMetrics /\ [][NextMetrics]_vars

\* C9: false_positives is max(0, candidates - true_matches): the difference
\* when true_matches <= candidates, and 0 when true_matches > candidates.
C9_FalsePositivesSaturate ==
    call.fn = "calculate" =>
        LET candidates == call.arg[2]
            true_matches == call.arg[3]
        IN  /\ call.ret.false_positives = Max(0, candidates - true_matches)
            /\ true_matches <= candidates =>
                  call.ret.false_positives = candidates - true_matches
            /\ true_matches > candidates => call.ret.false_positives = 0

\* calculate has been given more true matches than candidates.
C9_Witness ==
    /\ call.fn = "calculate"
    /\ call.arg[3] > call.arg[2]
    /\ call.ret.false_positives = 0

====
